---------------------------- MODULE Spec2Model ----------------------------
(***************************************************************************)
(* A model of fwsp-umf-message (src/index.js): the UMF message envelope,  *)
(* its long/short field naming, createMessage and the Proxy it returns,   *)
(* messageToShort / messageToLong, validateMessage and parseRoute.        *)
(*                                                                         *)
(* JavaScript strings are sequences of one-character strings.  The value  *)
(* `undefined` is the one-element sequence Undefined, whose element is no *)
(* character, so that no string equals it.                                *)
(***************************************************************************)
EXTENDS Integers, Sequences, FiniteSets, TLC

VARIABLES toValue, route, msg, orig, trail, ret

vars == <<toValue, route, msg, orig, trail, ret>>

-----------------------------------------------------------------------------
(* Bounds of the model.                                                    *)

\* A route string is the concatenation of at most MaxTokens tokens.
MaxTokens == 5

\* An overrides object has at most MaxKeys own keys.
MaxKeys == 3

-----------------------------------------------------------------------------
(* JavaScript strings and arrays, as parseRoute uses them.                 *)

Undefined == <<"undefined">>

\* What a template literal prints for an undefined value.
UndefinedText == <<"u", "n", "d", "e", "f", "i", "n", "e", "d">>

Min(a, b) == IF a < b THEN a ELSE b
Max(a, b) == IF a < b THEN b ELSE a

\* String.prototype.indexOf: the 0-based position of the first occurrence
\* of pat in s, or -1.
IndexOf(s, pat) ==
    LET hits == {i \in 0..(Len(s) - Len(pat)) : SubSeq(s, i + 1, i + Len(pat)) = pat}
    IN  IF hits = {} THEN -1 ELSE CHOOSE i \in hits : \A j \in hits : i <= j

\* String.prototype.substring(start, end): both clamped to 0..length, and
\* swapped when start > end.
Substring(s, start, end) ==
    LET a == Max(0, Min(start, Len(s)))
        b == Max(0, Min(end, Len(s)))
    IN  SubSeq(s, Min(a, b) + 1, Max(a, b))

\* String.prototype.split(sep) for a one-character separator: never empty.
RECURSIVE Split(_, _)
Split(s, sep) ==
    LET p == IndexOf(s, sep)
    IN  IF p < 0 THEN <<s>>
        ELSE <<Substring(s, 0, p)>> \o Split(Substring(s, p + 1, Len(s)), sep)

\* Array.prototype.join(sep).
RECURSIVE Join(_, _)
Join(segments, sep) ==
    IF Len(segments) = 0 THEN <<>>
    ELSE IF Len(segments) = 1 THEN segments[1]
    ELSE segments[1] \o sep \o Join(Tail(segments), sep)

\* segments[i] of a JavaScript array: undefined past the end.
At(segments, i) == IF i < Len(segments) THEN segments[i + 1] ELSE Undefined

\* `${v}` in a template literal.
ToText(v) == IF v = Undefined THEN UndefinedText ELSE v

LowerChar(c) == IF c = "G" THEN "g" ELSE c

\* String.prototype.toLowerCase.
ToLowerCase(s) == [i \in 1..Len(s) |-> LowerChar(s[i])]

-----------------------------------------------------------------------------
(* parseRoute, src/index.js lines 195-250.                                 *)

ErrSegments == "route field has invalid number of routable segments"
ErrVerb == "route field has ill-formed HTTP method verb in segment"
NoError == "undefined"

\* Lines 204-213: the instance prefix.  Yields instance, subID and the
\* route remainder (urlRoute).
SplitInstance(urlRoute) ==
    LET atPos == IndexOf(urlRoute, <<"@">>)
    IN  IF atPos > -1
        THEN LET instance == Substring(urlRoute, 0, atPos)
                 segments == Split(instance, <<"-">>)
             IN  [instance |-> IF Len(segments) > 0 THEN At(segments, 0) ELSE instance,
                  subID    |-> IF Len(segments) > 0 THEN At(segments, 1) ELSE <<>>,
                  urlRoute |-> Substring(urlRoute, atPos + 1, Len(urlRoute))]
        ELSE [instance |-> <<>>, subID |-> <<>>, urlRoute |-> urlRoute]

\* Lines 218-225: the service name and the api route of the colon-split
\* remainder, an "http" first segment rejoined with the second.
ServiceAndRoute(segments0) ==
    LET isUrl == IndexOf(At(segments0, 0), <<"h", "t", "t", "p">>) = 0
        url == ToText(At(segments0, 0)) \o <<":">> \o ToText(At(segments0, 1))
        shifted == Tail(segments0)
        segments == IF ~isUrl THEN segments0
                    ELSE IF Len(shifted) = 0 THEN <<url>>
                    ELSE [shifted EXCEPT ![1] = url]
    IN  [serviceName |-> At(segments, 0),
         apiRoute    |-> Join(Tail(segments), <<":">>)]

\* Lines 226-240: the HTTP method in brackets at the front of apiRoute.
\* Lines 228-239: the body of `if (s1 === 0)`.
MethodAt(apiRoute, s1) ==
    LET s2 == IndexOf(apiRoute, <<"]">>)
        error == IF s2 < 0 THEN ErrVerb ELSE NoError
        httpMethod == IF s2 < 0 THEN Undefined
                      ELSE ToLowerCase(Substring(apiRoute, s1 + 1, s2))
    IN  IF error # NoError
        THEN [httpMethod |-> httpMethod, apiRoute |-> apiRoute,
              error |-> error, thrown |-> FALSE]
        ELSE IF httpMethod = Undefined
        THEN \* httpMethod.length of undefined: a TypeError
             [httpMethod |-> httpMethod, apiRoute |-> apiRoute,
              error |-> error, thrown |-> TRUE]
        ELSE LET s3 == Len(httpMethod)
             IN  [httpMethod |-> httpMethod,
                  apiRoute |-> IF s3 > 0
                               THEN Substring(apiRoute, s3 + 2, Len(apiRoute))
                               ELSE apiRoute,
                  error |-> error, thrown |-> FALSE]

NoMethod(apiRoute) ==
    [httpMethod |-> Undefined, apiRoute |-> apiRoute, error |-> NoError,
     thrown |-> FALSE]

\* The bracket test written as `s1 >= 0`: a '[' anywhere in apiRoute.
MethodOfAnywhere(apiRoute) ==
    LET s1 == IndexOf(apiRoute, <<"[">>)
    IN  IF s1 >= 0 THEN MethodAt(apiRoute, s1) ELSE NoMethod(apiRoute)

MethodOf(apiRoute) ==
    LET s1 == IndexOf(apiRoute, <<"[">>)
    IN  IF s1 = 0 THEN MethodAt(apiRoute, s1) ELSE NoMethod(apiRoute)

parseRoute(value) ==
    LET pre == SplitInstance(value)
        segments == Split(pre.urlRoute, <<":">>)
    IN  IF Len(segments) < 1
        THEN [instance |-> pre.instance, subID |-> pre.subID, serviceName |-> <<>>,
              httpMethod |-> Undefined, apiRoute |-> <<>>, error |-> ErrSegments,
              thrown |-> FALSE]
        ELSE LET sr == ServiceAndRoute(segments)
                 m == MethodOf(sr.apiRoute)
             IN  [instance |-> pre.instance, subID |-> pre.subID,
                  serviceName |-> sr.serviceName, httpMethod |-> m.httpMethod,
                  apiRoute |-> m.apiRoute, error |-> m.error, thrown |-> m.thrown]

-----------------------------------------------------------------------------
(* The route strings parseRoute is applied to.                             *)

Tokens == {<<"@">>, <<"-">>, <<":">>, <<"[">>, <<"]">>, <<"G">>,
           <<"h", "t", "t", "p">>}

RECURSIVE Concat(_)
Concat(ts) == IF Len(ts) = 0 THEN <<>> ELSE Head(ts) \o Concat(Tail(ts))

\* toValue is a route string of at most MaxTokens tokens.
IsRoute(value) == \E n \in 0..MaxTokens : \E ts \in [1..n -> Tokens] : value = Concat(ts)

\* The value of route before parseRoute has returned.
NotParsed == [thrown |-> FALSE, pending |-> TRUE]

-----------------------------------------------------------------------------
(* The envelope.  An object is a function from its own keys to values; a   *)
(* value is a token: VUndefined for undefined, "" for the empty string,    *)
(* anything else truthy.                                                   *)

VUndefined == "undefined"

UMF_VERSION == "UMF/1.4.3"

Keys == {"to", "from", "frm", "mid", "rmid", "timestamp", "ts", "version", "ver",
         "via", "for", "body", "bdy"}

LongKeys == {"to", "from", "mid", "rmid", "timestamp", "version", "via", "for", "body"}

ShortKeys == {"to", "frm", "mid", "rmid", "ts", "ver", "via", "for", "bdy"}

shortToLong == [frm |-> "from", ts |-> "timestamp", ver |-> "version", bdy |-> "body"]

longToShort == [from |-> "frm", timestamp |-> "ts", version |-> "ver", body |-> "bdy"]

EmptyObject == [k \in {} |-> VUndefined]

\* !v
Truthy(v) == v \notin {VUndefined, ""}

\* obj[name] of a plain object.
Get(obj, name) == IF name \in DOMAIN obj THEN obj[name] ELSE VUndefined

\* Object.assign(target, source): the source's own keys win.
Assign(target, source) ==
    [k \in (DOMAIN target) \cup (DOMAIN source) |->
        IF k \in DOMAIN source THEN source[k] ELSE target[k]]

\* The generators createMessage calls (lines 32-52).
createMessageID == "uuid"
createShortMessageID == "shortid"
getTimeStamp == "now"

NoMessage == [kind |-> "none", obj |-> EmptyObject, shortFormat |-> FALSE]

Plain(obj) == [kind |-> "plain", obj |-> obj, shortFormat |-> FALSE]

\* Lines 65-100: the defaults merged with the overrides, behind a Proxy.
\* message is an object, or NoMessage.obj for `message || {}` of a missing one.
createMessageLongNames(message, shortFormat) ==
    [kind |-> "proxy",
     obj |-> Assign([mid |-> IF shortFormat THEN createShortMessageID ELSE createMessageID,
                     timestamp |-> getTimeStamp,
                     version |-> UMF_VERSION], message),
     shortFormat |-> shortFormat]

createMessage(message, shortFormat) ==
    [kind |-> "proxy",
     obj |-> IF shortFormat = FALSE
             THEN Assign([mid |-> createMessageID,
                          timestamp |-> getTimeStamp,
                          version |-> UMF_VERSION], message)
             ELSE Assign([mid |-> createShortMessageID,
                          ts |-> getTimeStamp,
                          ver |-> UMF_VERSION], message),
     shortFormat |-> shortFormat]

\* Lines 81-89: the Proxy's get handler.
ProxyGet(obj, shortFormat, name) ==
    IF shortFormat /\ name \in DOMAIN longToShort THEN Get(obj, longToShort[name])
    ELSE IF ~shortFormat /\ name \in DOMAIN shortToLong THEN Get(obj, shortToLong[name])
    ELSE Get(obj, name)

\* message[name], through the Proxy when the message has one.
Read(message, name) ==
    IF message.kind = "proxy" THEN ProxyGet(message.obj, message.shortFormat, name)
    ELSE Get(message.obj, name)

\* Lines 90-98: the Proxy's set handler.  Its parameters are (obj, prop,
\* value); the identifier `name` it tests and indexes with is bound nowhere
\* (the module is strict and Node defines no global `name`), so evaluating
\* it raises a ReferenceError before any assignment is made.
NameIsBound == FALSE

ProxySet(obj, shortFormat, prop, value) ==
    IF shortFormat /\ ~NameIsBound THEN [obj |-> obj, thrown |-> TRUE]
    ELSE IF ~shortFormat /\ ~NameIsBound THEN [obj |-> obj, thrown |-> TRUE]
    ELSE \* obj[name] = value evaluates `name` as well
         [obj |-> obj, thrown |-> TRUE]

\* Lines 128-140 and 148-160: (message.src) && (convertedMessage.dst = message.src),
\* one line per pair.
Convert(message, pairs) ==
    LET kept == {i \in 1..Len(pairs) : Truthy(Read(message, pairs[i][1]))}
    IN  [k \in {pairs[i][2] : i \in kept} |->
            Read(message, pairs[CHOOSE i \in kept : pairs[i][2] = k][1])]

ToShortPairs ==
    << <<"to", "to">>, <<"from", "frm">>, <<"mid", "mid">>, <<"rmid", "rmid">>,
       <<"timestamp", "ts">>, <<"version", "ver">>, <<"via", "via">>,
       <<"for", "for">>, <<"body", "bdy">> >>

ToLongPairs ==
    << <<"to", "to">>, <<"frm", "from">>, <<"mid", "mid">>, <<"rmid", "rmid">>,
       <<"ts", "timestamp">>, <<"ver", "version">>, <<"via", "via">>,
       <<"for", "for">>, <<"bdy", "body">> >>

\* messageToShort with the rmid line left out.
messageToShortNoRmid(message) ==
    Plain(Convert(message, SelectSeq(ToShortPairs, LAMBDA p : p[1] # "rmid")))

messageToShort(message) == Plain(Convert(message, ToShortPairs))

messageToLong(message) == Plain(Convert(message, ToLongPairs))

\* Lines 168-174.
validateMessage(message) ==
    IF (~Truthy(Read(message, "from")) /\ ~Truthy(Read(message, "frm")))
       \/ ~Truthy(Read(message, "to"))
       \/ (~Truthy(Read(message, "body")) /\ ~Truthy(Read(message, "bdy")))
    THEN FALSE
    ELSE TRUE

-----------------------------------------------------------------------------
(* The inputs.                                                             *)

OverrideValues == {VUndefined, "", "a"}

WrittenValues == {"b", ""}

\* The sets of own keys an object of the model may have.
KeySets(keys) == {S \in SUBSET keys : Cardinality(S) <= MaxKeys}

\* A plain message in one naming: what messageToShort and messageToLong
\* convert.
IsPlainMessage(message) ==
    \E S \in KeySets(LongKeys) \cup KeySets(ShortKeys) :
        \E obj \in [S -> OverrideValues] : message = Plain(obj)

Idle == [op |-> "none", thrown |-> FALSE, ok |-> FALSE, prop |-> "", value |-> "",
         message |-> EmptyObject]

-----------------------------------------------------------------------------
(* The operations.                                                         *)

\* A caller builds an envelope: createMessage(message, shortFormat).
CreateMessage ==
    /\ msg.kind = "none"
    /\ \E S \in KeySets(Keys), shortFormat \in BOOLEAN :
       \E message \in [S -> OverrideValues] :
          /\ msg' = createMessage(message, shortFormat)
          /\ orig' = msg'
          /\ ret' = [Idle EXCEPT !.op = "createMessage", !.message = message]
    /\ trail' = <<>>
    /\ UNCHANGED <<toValue, route>>

\* message[prop] = value on an envelope createMessage returned.
SetField ==
    /\ msg.kind = "proxy"
    /\ \E prop \in Keys, value \in WrittenValues :
          LET r == ProxySet(msg.obj, msg.shortFormat, prop, value)
          IN  /\ msg' = [msg EXCEPT !.obj = r.obj]
              /\ ret' = [Idle EXCEPT !.op = "set", !.thrown = r.thrown,
                                     !.prop = prop, !.value = value]
    /\ UNCHANGED <<toValue, route, orig, trail>>

MessageToShort ==
    /\ msg.kind # "none"
    /\ Len(trail) < 2
    /\ msg' = messageToShort(msg)
    /\ trail' = Append(trail, "toShort")
    /\ ret' = [Idle EXCEPT !.op = "messageToShort"]
    /\ UNCHANGED <<toValue, route, orig>>

MessageToLong ==
    /\ msg.kind # "none"
    /\ Len(trail) < 2
    /\ msg' = messageToLong(msg)
    /\ trail' = Append(trail, "toLong")
    /\ ret' = [Idle EXCEPT !.op = "messageToLong"]
    /\ UNCHANGED <<toValue, route, orig>>

ValidateMessage ==
    /\ msg.kind # "none"
    /\ ret' = [Idle EXCEPT !.op = "validateMessage", !.ok = validateMessage(msg)]
    /\ UNCHANGED <<toValue, route, msg, orig, trail>>

ParseRoute ==
    /\ route = NotParsed
    /\ route' = parseRoute(toValue)
    /\ UNCHANGED <<toValue, msg, orig, trail, ret>>

-----------------------------------------------------------------------------
(* The specifications.                                                     *)

\* Envelopes: built by createMessage or received plain, then written,
\* converted and validated.
Init ==
    /\ toValue = <<>>
    /\ route = NotParsed
    /\ msg = NoMessage \/ IsPlainMessage(msg)
    /\ orig = msg
    /\ trail = <<>>
    /\ ret = Idle

Next ==
    \/ CreateMessage
    \/ SetField
    \/ MessageToShort
    \/ MessageToLong
    \/ ValidateMessage

Spec == Init /\ [][Next]_vars

\* The codec alone: envelopes and their conversions.
CodecNext ==
    \/ CreateMessage
    \/ MessageToShort
    \/ MessageToLong

CodecSpec == Init /\ [][CodecNext]_vars

\* parseRoute applied to a route string.
RouteInit ==
    /\ IsRoute(toValue)
    /\ route = NotParsed
    /\ msg = NoMessage
    /\ orig = NoMessage
    /\ trail = <<>>
    /\ ret = Idle

RouteNext == ParseRoute

RouteSpec == RouteInit /\ [][RouteNext]_vars

-----------------------------------------------------------------------------
(* The route grammar as the specification words it, for the claims about   *)
(* parseRoute.                                                             *)

Parsed == route # NotParsed

HasAt == IndexOf(toValue, <<"@">>) >= 0

\* The instance segment: the text before the first '@'.
InstanceSegment == Substring(toValue, 0, IndexOf(toValue, <<"@">>))

\* The route remainder: the text after the first '@', or the whole input.
Remainder ==
    IF HasAt THEN Substring(toValue, IndexOf(toValue, <<"@">>) + 1, Len(toValue))
    ELSE toValue

\* The text after the first ':' of s, empty when s has none.
AfterColon(s) ==
    IF IndexOf(s, <<":">>) < 0 THEN <<>>
    ELSE Substring(s, IndexOf(s, <<":">>) + 1, Len(s))

StartsWithHttp(s) == Len(s) >= 4 /\ SubSeq(s, 1, 4) = <<"h", "t", "t", "p">>

\* The text after the service-name segment.
ApiRoutePart ==
    IF StartsWithHttp(Remainder) THEN AfterColon(AfterColon(Remainder))
    ELSE AfterColon(Remainder)

OpensVerb == Len(ApiRoutePart) > 0 /\ ApiRoutePart[1] = "["

ClosesVerb == \E i \in 1..Len(ApiRoutePart) : ApiRoutePart[i] = "]"

IsPartOf(t, s) == \E i \in 0..Len(s) : SubSeq(s, i + 1, i + Len(t)) = t

\* C1: for a route I@R, parseRoute returns instance equal to the whole of
\* I, the text before the first '@', also when I contains '-'.
C1_InstanceIsWholeSegment ==
    (Parsed /\ HasAt) => route.instance = InstanceSegment

\* C4: parseRoute returns a result and does not throw, and its error field
\* holds the ill-formed-verb message exactly when the apiRoute part begins
\* with '[' and contains no ']'; it is undefined otherwise.
C4_ErrorExactlyOnUnclosedVerb ==
    Parsed =>
        /\ ~route.thrown
        /\ route.error = IF OpensVerb /\ ~ClosesVerb THEN ErrVerb ELSE NoError

\* An instance-addressed route whose verb bracket is never closed has been
\* parsed and reported.
C4_Witness ==
    Parsed /\ HasAt /\ OpensVerb /\ ~ClosesVerb /\ Len(ApiRoutePart) > 1
           /\ route.error = ErrVerb

\* C8: when the apiRoute part begins with '[' and contains ']', httpMethod
\* is the lower-cased text between '[' and the first ']' and apiRoute is the
\* text after that ']', the empty verb '[]' included; when it does not begin
\* with '[', httpMethod is undefined and apiRoute is the part unchanged.
C8_VerbExtractedAndStripped ==
    Parsed =>
        /\ (OpensVerb /\ ClosesVerb) =>
              LET close == IndexOf(ApiRoutePart, <<"]">>)
              IN  /\ route.httpMethod = ToLowerCase(SubSeq(ApiRoutePart, 2, close))
                  /\ route.apiRoute = SubSeq(ApiRoutePart, close + 2, Len(ApiRoutePart))
        /\ ~OpensVerb =>
              /\ route.httpMethod = Undefined
              /\ route.apiRoute = ApiRoutePart

\* C9: instance is the first '-'-token of the instance segment, subID the
\* second when there is one and the empty string when there is none; with
\* no '@' both are empty strings.  subID is always a string.
C9_InstanceAndSubID ==
    Parsed =>
        IF HasAt
        THEN LET tokens == Split(InstanceSegment, <<"-">>)
             IN  /\ route.instance = tokens[1]
                 /\ route.subID = IF Len(tokens) >= 2 THEN tokens[2] ELSE <<>>
                 /\ route.subID # Undefined
        ELSE route.instance = <<>> /\ route.subID = <<>>

\* C10: serviceName is the first ':'-segment of the remainder R and apiRoute
\* the rest joined with ':', the first two segments forming serviceName when
\* the first starts with 'http'; both consist only of text of R, also when R
\* is a single segment starting with 'http'; an empty R gives '' and ''
\* with no error.
C10_ServiceNameAndApiRoute ==
    Parsed =>
        LET segs == Split(Remainder, <<":">>)
        IN  /\ route.serviceName =
                  IF StartsWithHttp(segs[1]) /\ Len(segs) >= 2
                  THEN segs[1] \o <<":">> \o segs[2]
                  ELSE segs[1]
            /\ ~OpensVerb => route.apiRoute = ApiRoutePart
            /\ IsPartOf(route.serviceName, Remainder)
            /\ IsPartOf(route.apiRoute, Remainder)
            /\ Remainder = <<>> =>
                  route.serviceName = <<>> /\ route.apiRoute = <<>> /\ route.error = NoError

-----------------------------------------------------------------------------
(* The claims about envelopes.                                             *)

\* The other name of a dual-named field; a single-named field's own name.
OtherName(name) ==
    IF name \in DOMAIN longToShort THEN longToShort[name]
    ELSE IF name \in DOMAIN shortToLong THEN shortToLong[name]
    ELSE name

\* C2: on an envelope createMessage returned, a write of any field
\* completes without raising, and a later read of the field through either
\* of its names returns the written value.
C2_WriteThenReadEitherName ==
    ret.op = "set" =>
        /\ ~ret.thrown
        /\ Read(msg, ret.prop) = ret.value
        /\ Read(msg, OtherName(ret.prop)) = ret.value

\* An envelope holds a truthy to, an origin under from or frm and a payload
\* under body or bdy.
HoldsRequired(obj) ==
    /\ Truthy(Get(obj, "to"))
    /\ Truthy(Get(obj, "from")) \/ Truthy(Get(obj, "frm"))
    /\ Truthy(Get(obj, "body")) \/ Truthy(Get(obj, "bdy"))

\* C3: validateMessage does not throw and returns true exactly when the
\* envelope holds a truthy to, a truthy origin stored under from or frm and
\* a truthy payload stored under body or bdy, for plain objects and for
\* every envelope createMessage returns.
C3_ValidIffRequiredHeld ==
    ret.op = "validateMessage" =>
        /\ ~ret.thrown
        /\ ret.ok = HoldsRequired(msg.obj)

\* The names under which an envelope of the requested form keeps its
\* generated fields.
GeneratedNames(shortFormat) ==
    IF shortFormat THEN {"mid", "ts", "ver"} ELSE {"mid", "timestamp", "version"}

HasGenerated(message) ==
    \A k \in GeneratedNames(message.shortFormat) :
        k \in DOMAIN message.obj /\ Truthy(Read(message, k))

\* C5 as claimed: for every overrides object, one supplying a falsy or
\* undefined mid, timestamp or version included, the envelope's generated
\* fields are present and non-empty.
C5_GeneratedAlwaysPresent ==
    ret.op = "createMessage" => HasGenerated(msg)

\* C5, amended: for every overrides object that supplies no falsy or
\* undefined value under the requested form's own name of a generated field
\* (mid, timestamp, version; or mid, ts, ver), the envelope's generated
\* fields are present and non-empty.
C5_GeneratedPresentUnlessOverriddenFalsy ==
    (/\ ret.op = "createMessage"
     /\ \A k \in GeneratedNames(msg.shortFormat) \cap DOMAIN ret.message :
           Truthy(ret.message[k]))
    => HasGenerated(msg)

\* A short-form envelope was created from overrides that replace mid with a
\* truthy value and supply a falsy long-named timestamp.
C5_Witness ==
    /\ ret.op = "createMessage"
    /\ msg.shortFormat
    /\ "mid" \in DOMAIN ret.message /\ Read(msg, "mid") = "a"
    /\ "timestamp" \in DOMAIN ret.message /\ ret.message["timestamp"] = ""
    /\ Read(msg, "ts") = getTimeStamp

SemanticFields ==
    {[long |-> k, short |-> OtherName(k)] : k \in LongKeys}

IsLongForm(obj) == DOMAIN obj \subseteq LongKeys

IsShortForm(obj) == DOMAIN obj \subseteq ShortKeys

\* The value of a semantic field in a message: what the envelope yields for
\* it, or what a plain object stores under its form's name.
ValueIn(message, f) ==
    IF message.kind = "proxy" THEN Read(message, f.long)
    ELSE IF IsLongForm(message.obj) THEN Get(message.obj, f.long)
    ELSE Get(message.obj, f.short)

\* The converted message holds every field that was truthy in the original,
\* with its value, under the name of the last conversion's form, and holds
\* no field that was absent or falsy.
Preserved(original, converted, last) ==
    \A f \in SemanticFields :
        LET name == IF last = "toShort" THEN f.short ELSE f.long
        IN  IF Truthy(ValueIn(original, f))
            THEN name \in DOMAIN converted.obj
                 /\ converted.obj[name] = ValueIn(original, f)
            ELSE f.long \notin DOMAIN converted.obj
                 /\ f.short \notin DOMAIN converted.obj

RoundTrips == {<<"toLong", "toShort">>, <<"toShort", "toLong">>}

\* C6 as claimed: for every message, plain in either form or an envelope,
\* messageToShort(messageToLong(m)) and messageToLong(messageToShort(m))
\* each hold exactly the semantic fields that were truthy in m, with their
\* values.
C6_RoundTripPreserves ==
    trail \in RoundTrips => Preserved(orig, msg, trail[2])

\* C6, amended: the round trip holds exactly the fields that were truthy in
\* m, with their values, when m is an envelope createMessage returned (both
\* round trips), when m is a plain long-form object and the round trip is
\* messageToLong(messageToShort(m)), and when m is a plain short-form
\* object and the round trip is messageToShort(messageToLong(m)).
C6_RoundTripPreservesFromOwnForm ==
    (/\ trail \in RoundTrips
     /\ \/ orig.kind = "proxy"
        \/ orig.kind = "plain" /\ IsLongForm(orig.obj) /\ trail[1] = "toShort"
        \/ orig.kind = "plain" /\ IsShortForm(orig.obj) /\ trail[1] = "toLong")
    => Preserved(orig, msg, trail[2])

\* A short-form envelope with a truthy origin, response id and payload has
\* been converted to long form and back.
C6_Witness ==
    /\ trail = <<"toLong", "toShort">>
    /\ orig.kind = "proxy" /\ orig.shortFormat
    /\ Get(orig.obj, "frm") = "a" /\ Get(msg.obj, "frm") = "a"
    /\ Get(orig.obj, "rmid") = "a" /\ Get(msg.obj, "rmid") = "a"
    /\ Get(msg.obj, "ts") = getTimeStamp
    /\ Get(orig.obj, "bdy") = "" /\ "bdy" \notin DOMAIN msg.obj

DualPairs == {<<k, longToShort[k]>> : k \in DOMAIN longToShort}

InOneMode(message) ==
    /\ \A p \in DualPairs : ~(p[1] \in DOMAIN message.obj /\ p[2] \in DOMAIN message.obj)
    /\ IsLongForm(message.obj) \/ IsShortForm(message.obj)
    /\ (message.kind = "proxy" /\ ~message.shortFormat) => IsLongForm(message.obj)
    /\ (message.kind = "proxy" /\ message.shortFormat) => IsShortForm(message.obj)

\* C7: after createMessage(m, shortFormat) for any m, and any writes and
\* conversions that follow, the envelope is in exactly one naming mode: it
\* never holds both names of a field, a long-form envelope holds no short
\* key and a short-form envelope no long key.
C7_OneNamingMode ==
    orig.kind = "proxy" => InOneMode(msg)

=============================================================================
